---- MODULE Spec2Model ----
(***************************************************************************)
(* A model of generate-sidecar-json.py: the log mapping builder, the       *)
(* filename inference engine, the record assembler and the driver loop.    *)
(*                                                                         *)
(* Text is modelled as a sequence of characters.  A character is a one-    *)
(* element string; a few multi-letter tokens ("pdf", "Renamed:", ...)      *)
(* stand for a run of letters that no regular expression of the program    *)
(* looks inside.  Python values are tagged records, so that None, "", 0,   *)
(* [] and {} stay distinct values with Python's truthiness.                *)
(***************************************************************************)
EXTENDS Integers, Sequences, FiniteSets, TLC

VARIABLES
    pc,          \* position of the function or of main under analysis
    stem,        \* argument of infer_metadata_from_filename
    inferred,    \* its result
    file_path,   \* argument of build_sidecar_for_file
    mapping,     \* the log mapping (result of build_log_mapping)
    cfg,         \* the merged configuration
    entry,       \* the record under assembly / the function's outcome
    fallback,    \* whether the filename fallback branch (lines 203-207) ran
    logs_dir,    \* the log directory: the files glob yields, in scan order
    fs,          \* the input files main enumerated, in rglob order
    output_dir,  \* main's --output-dir (None when absent)
    idx,         \* main's loop position in files
    sidecars,    \* the sink: target path -> record written there
    writes,      \* the sequence of (file, target) writes main performed
    written      \* main's counter

vars == <<pc, stem, inferred, file_path, mapping, cfg, entry, fallback,
          logs_dir, fs, output_dir, idx, sidecars, writes, written>>

-----------------------------------------------------------------------------
(* Python values *)

None == [t |-> "none"]
Str(s) == [t |-> "str", s |-> s]
Num(n) == [t |-> "num", n |-> n]
List(l) == [t |-> "list", l |-> l]
Dict(d) == [t |-> "dict", d |-> d]

EmptyDict == << >>

\* bool(v) of Python
Truthy(v) ==
    CASE v.t = "none" -> FALSE
      [] v.t = "str"  -> v.s # << >>
      [] v.t = "num"  -> v.n # 0
      [] v.t = "list" -> v.l # << >>
      [] v.t = "dict" -> DOMAIN v.d # {}

\* a or b
Or(a, b) == IF Truthy(a) THEN a ELSE b

\* d.get(k) and d.get(k, dflt) on a dict's key -> value function
GetOr(d, k, dflt) == IF k \in DOMAIN d THEN d[k] ELSE dflt
Get(d, k) == GetOr(d, k, None)

\* d.update(e)
Update(d, e) ==
    [k \in DOMAIN d \cup DOMAIN e |-> IF k \in DOMAIN e THEN e[k] ELSE d[k]]

\* the outcome of a call: a value, or an exception that was raised
Ok(v) == [ok |-> TRUE, val |-> v]
Raise(e) == [ok |-> FALSE, exc |-> e]

-----------------------------------------------------------------------------
(* Characters and strings *)

Digits == {"2"}
Seps == {"_", "-", " "}       \* [_\- ]
Space == {" "}                \* \s

\* s[i..j] of a sequence
Slice(s, i, j) == SubSeq(s, i, j)

SetMax(S) == CHOOSE m \in S : \A k \in S : k <= m
SetMin(S) == CHOOSE m \in S : \A k \in S : m <= k

\* s.replace("_", " ")
ReplaceUnderscore(s) == [i \in 1..Len(s) |-> IF s[i] = "_" THEN " " ELSE s[i]]

\* s.strip()
Strip(s) ==
    LET keep == {i \in 1..Len(s) : s[i] \notin Space}
    IN  IF keep = {} THEN << >> ELSE Slice(s, SetMin(keep), SetMax(keep))

-----------------------------------------------------------------------------
(* FILENAME_METADATA_REGEXES and infer_metadata_from_filename *)

YearLen == 4

NoMatch == [m |-> FALSE]

\* the class [^\-], which lets an underscore into the title
TitleClass1HyphenOnly(c) == c # "-"

\* [^_\-] : the class of the title group of pattern 1
TitleClass1(c) == c \notin {"_", "-"}

\* [^.] : the class of both author groups
AuthorClass(c) == c # "."

\* [^\-] : the class of the title group of pattern 2
TitleClass2(c) == c # "-"

\* ^(?P<year>\d{4})[_\- ](?P<title>[^_\-]+)[_\- ](?P<author>[^.]+)$
\* j is the position of the second separator; the title group is greedy, so
\* the match the engine reports is the one with the largest j.
Pattern1(s) ==
    LET n == Len(s)
        t0 == YearLen + 2
        J == {j \in (t0 + 1)..(n - 1) :
                /\ s[j] \in Seps
                /\ \A k \in t0..(j - 1) : TitleClass1(s[k])
                /\ \A k \in (j + 1)..n : AuthorClass(s[k])}
    IN  IF /\ n >= YearLen + 1
           /\ \A k \in 1..YearLen : s[k] \in Digits
           /\ s[YearLen + 1] \in Seps
           /\ J # {}
        THEN LET j == SetMax(J)
             IN  [m |-> TRUE,
                  year |-> Slice(s, 1, YearLen),
                  title |-> Slice(s, t0, j - 1),
                  author |-> Slice(s, j + 1, n)]
        ELSE NoMatch

\* ^(?P<title>[^\-]+)\s*-\s*(?P<author>[^.]+)$
\* The title group cannot hold a hyphen and is greedy, so the literal hyphen is
\* the first hyphen of the stem; \s* after it is greedy and gives back one
\* character only when nothing else is left for the author group.
Pattern2(s) ==
    LET n == Len(s)
        H == {i \in 1..n : s[i] = "-"}
    IN  IF H = {} THEN NoMatch
        ELSE LET h == SetMin(H)
                 nonsp == {i \in (h + 1)..n : s[i] \notin Space}
                 a == IF nonsp = {} THEN n ELSE SetMin(nonsp)
             IN  IF /\ h > 1
                    /\ h < n
                    /\ \A k \in 1..(h - 1) : TitleClass2(s[k])
                    /\ \A k \in (h + 1)..n : AuthorClass(s[k])
                 THEN [m |-> TRUE,
                       year |-> << >>,
                       title |-> Slice(s, 1, h - 1),
                       author |-> Slice(s, a, n)]
                 ELSE NoMatch

\* the list of regexes, applied to one stem: the match of each, in list order
FILENAME_METADATA_REGEXES(s) == <<Pattern1(s), Pattern2(s)>>

\* for rgx in regexes: m = rgx.match(...); if m: ... return/break
FirstMatch(ms) ==
    LET R == {r \in DOMAIN ms : ms[r].m}
    IN  IF R = {} THEN NoMatch ELSE ms[SetMin(R)]

\* lines 143-150: the fields one match contributes
MatchFields(gd) ==
    LET T == IF gd.title # << >>
             THEN [k \in {"title"} |-> Str(Strip(ReplaceUnderscore(gd.title)))]
             ELSE EmptyDict
        A == IF gd.author # << >>
             THEN [k \in {"author"} |-> Str(Strip(ReplaceUnderscore(gd.author)))]
             ELSE EmptyDict
        Y == IF gd.year # << >>
             THEN [k \in {"publication_date"} |-> Str(gd.year)]
             ELSE EmptyDict
        S == [k \in {"metadata_source"} |-> Str(<<"filename">>)]
    IN  Update(Update(Update(T, A), Y), S)

\* lines 139-153, given the first match (or none)
InferFrom(gd) ==
    IF gd.m THEN MatchFields(gd)
    ELSE [k \in {"metadata_source"} |-> Str(<<"unknown">>)]

infer_metadata_from_filename(s) ==
    InferFrom(FirstMatch(FILENAME_METADATA_REGEXES(s)))

-----------------------------------------------------------------------------
(* pathlib: a path string is a sequence of characters with "/" between its *)
(* components.  The paths of the model hold no ".", ".." or symlink.       *)

Cwd == <<"/", "cwd">>

LastIndexOf(s, c) ==
    LET I == {i \in 1..Len(s) : s[i] = c}
    IN  IF I = {} THEN 0 ELSE SetMax(I)

\* Path(p).name
Name(p) == Slice(p, LastIndexOf(p, "/") + 1, Len(p))

\* Path(p).suffix: from the last dot of the name, unless that dot is the
\* first or the last character of the name
Suffix(p) ==
    LET nm == Name(p)
        i == LastIndexOf(nm, ".")
    IN  IF 1 < i /\ i < Len(nm) THEN Slice(nm, i, Len(nm)) ELSE << >>

\* Path(p).stem
PathStem(p) ==
    LET nm == Name(p)
    IN  Slice(nm, 1, Len(nm) - Len(Suffix(p)))

\* Path(p).resolve().as_posix(); os.path.realpath raises ValueError on an
\* embedded null byte
Resolve(p) ==
    IF \E i \in 1..Len(p) : p[i] = "NUL" THEN Raise("ValueError")
    ELSE IF p = << >> THEN Ok(Cwd)
    ELSE IF p[1] = "/" THEN Ok(p)
    ELSE Ok(Cwd \o <<"/">> \o p)

\* str.lower() on the letter tokens of the model
Lower(s) ==
    [i \in 1..Len(s) |-> CASE s[i] = "PDF" -> "pdf"
                           [] s[i] = "TXT" -> "txt"
                           [] OTHER -> s[i]]

\* s.lstrip(".")
LStripDot(s) ==
    LET keep == {i \in 1..Len(s) : s[i] # "."}
    IN  IF keep = {} THEN << >> ELSE Slice(s, SetMin(keep), Len(s))

\* mimetypes.guess_type(str(p))[0] for the types the model's files have
GuessType(p) ==
    LET e == Lower(Suffix(p))
    IN  CASE e = <<".", "pdf">> -> Str(<<"application/pdf">>)
          [] e = <<".", "txt">> -> Str(<<"text/plain">>)
          [] OTHER -> None

-----------------------------------------------------------------------------
(* An input file: its path and what the disk holds for it.  disk is "ok",  *)
(* "missing" (stat fails) or "noread" (open or read fails).                *)

File(p, disk, content) == [path |-> p, disk |-> disk, content |-> content]

\* file_path.stat()
Stat(f) ==
    IF f.disk = "missing" THEN Raise("FileNotFoundError")
    ELSE Ok(Num(Len(f.content)))

\* sha256_file: the digest of the whole content, or the error of open/read
sha256_file(f) ==
    IF f.disk = "ok" THEN Ok(Str(<<"sha256">> \o f.content))
    ELSE IF f.disk = "missing" THEN Raise("FileNotFoundError")
    ELSE Raise("PermissionError")

-----------------------------------------------------------------------------
(* build_sidecar_for_file *)

BiblioKeys == <<"title", "author", "publication_date", "summary", "domain_topics">>
LlmKeys == <<"model", "endpoint", "confidence">>

\* cfg.get(a) or cfg.get(b) or cfg.get(c)
CfgLookup(c, k1, k2, k3) == Or(Or(Get(c, k1), Get(c, k2)), Get(c, k3))

\* lines 166-186, given the canonical key, the stat result and the digest
InitialEntry(f, c, key, size, digest) ==
    [source_path |-> Str(key),
     canonical_filename |-> Str(Name(f.path)),
     original_filename |-> None,
     file_format |-> Str(LStripDot(Lower(Suffix(f.path)))),
     mime_type |-> GuessType(f.path),
     size_bytes |-> size,
     sha256 |-> digest,
     title |-> None,
     author |-> None,
     publication_date |-> None,
     summary |-> None,
     domain_topics |-> List(<< >>),
     llm |-> Dict([model |-> CfgLookup(c, "model", "llm_model", "MODEL"),
                   endpoint |-> CfgLookup(c, "endpoint", "llm_endpoint", "ENDPOINT"),
                   confidence |-> None]),
     metadata_source |-> Str(<<"unknown">>),
     created_at |-> Str(<<"now">>)]

\* an identity part that goes on without a digest when the file cannot be read
IdentityOfNoDigest(f, c, key, st, digest) ==
    IF ~key.ok THEN key
    ELSE IF ~st.ok THEN st
    ELSE Ok(InitialEntry(f, c, key.val, st.val,
                         IF digest.ok THEN digest.val ELSE None))

\* lines 159-186, given the outcomes of resolve(), stat() and sha256_file():
\* the first of them that raised, in the order the code calls them
IdentityOf(f, c, key, st, digest) ==
    IF ~key.ok THEN key
    ELSE IF ~st.ok THEN st
    ELSE IF ~digest.ok THEN digest
    ELSE Ok(InitialEntry(f, c, key.val, st.val, digest.val))

\* lines 159-186: the identity part
IdentityStep(f, c) ==
    IdentityOf(f, c, Resolve(f.path), Stat(f), sha256_file(f))

\* for k in keys: if src.get(k) is not None: dst[k] = src[k]
RECURSIVE CopyNotNone(_, _, _, _)
CopyNotNone(dst, src, keys, i) ==
    IF i > Len(keys) THEN dst
    ELSE CopyNotNone(IF Get(src, keys[i]) # None
                     THEN Update(dst, [k \in {keys[i]} |-> src[keys[i]]])
                     ELSE dst,
                     src, keys, i + 1)

\* line 191
SetOriginal(e, op) ==
    [e EXCEPT !.original_filename = Or(Str(Name(op.s)), e.original_filename)]

\* entry.update(md) for the values that are not None, whatever their key
CopyBiblioAnyKey(e, md) ==
    Update(e, [k \in {x \in DOMAIN md : md[x] # None} |-> md[k]])

\* lines 193-195
CopyBiblio(e, md) == CopyNotNone(e, md, BiblioKeys, 1)

\* lines 196-199
CopyLlm(e, info) ==
    IF Truthy(Get(info, "llm"))
    THEN [e EXCEPT !.llm = Dict(CopyNotNone(e.llm.d, info["llm"].d, LlmKeys, 1))]
    ELSE e

\* line 200
SetSource(e, md) ==
    [e EXCEPT !.metadata_source =
         IF Truthy(md) THEN Str(<<"llm">>) ELSE e.metadata_source]

\* lines 191-200, given op = info.get("original_path") or "" and
\* md = info.get("metadata") or {}: Path(op) and md.get raise on other types
LogEnrichWith(e, info, op, md) ==
    IF op.t # "str" THEN Raise("TypeError")
    ELSE IF md.t # "dict" THEN Raise("AttributeError")
    ELSE Ok(SetSource(CopyLlm(CopyBiblio(SetOriginal(e, op), md.d), info), md))

\* lines 190-200, for an info that was found
LogEnrich(e, info) ==
    LogEnrichWith(e, info,
                  Or(Get(info, "original_path"), Str(<< >>)),
                  Or(Get(info, "metadata"), Dict(EmptyDict)))

\* lines 189-200, given the outcome of the identity part
LogLookup(id, m) ==
    IF ~id.ok THEN id
    ELSE IF /\ id.val.source_path.s \in DOMAIN m
            /\ Truthy(Dict(m[id.val.source_path.s]))
         THEN LogEnrich(id.val, m[id.val.source_path.s])
         ELSE id

\* lines 159-200: identity, then the log step
LogStep(f, m, c) == LogLookup(IdentityStep(f, c), m)

\* a gate that opens when either field is unset
FallbackGateEither(e) == ~Truthy(e.title) \/ ~Truthy(e.author)

\* line 203
FallbackGate(e) == ~Truthy(e.title) /\ ~Truthy(e.author)

\* {k: v for k, v in inferred.items() if k != "metadata_source"}
WithoutSource(inf) == [k \in DOMAIN inf \ {"metadata_source"} |-> inf[k]]

\* lines 206-207
ApplyInferred(e, inf) ==
    Update(Update(e, WithoutSource(inf)),
           [k \in {"metadata_source"} |->
               GetOr(inf, "metadata_source", e["metadata_source"])])

\* lines 204-207
Fallback(e, f) == ApplyInferred(e, infer_metadata_from_filename(PathStem(f.path)))

\* lines 202-209
FallbackStep(e, f) == IF FallbackGate(e) THEN Fallback(e, f) ELSE e

\* lines 202-209, given the outcome of lines 159-200
FallbackOf(r, f) == IF r.ok THEN Ok(FallbackStep(r.val, f)) ELSE r

build_sidecar_for_file(f, m, c) == FallbackOf(LogStep(f, m, c), f)

-----------------------------------------------------------------------------
(* RENAMED_LINE_REGEXES.  A line of a text log is a sequence of characters *)
(* in which "Renamed:", "Original:", "New:", "->" and "=>" are one token   *)
(* each.  Both groups are stripped by the caller, so only the choice of    *)
(* the keyword and of the arrow decides the result.                        *)

\* the arrow a lazy "original" group ends at: the first arrow that leaves at
\* least one character for the group, which starts at o or, when the engine
\* has to give back a blank it took for \s*, one character earlier
ArrowAfter(line, i, arrow) ==
    LET n == Len(line)
        nonsp == {k \in (i + 1)..n : line[k] \notin Space}
        o == IF nonsp = {} THEN n + 1 ELSE SetMin(nonsp)
        A == {a \in (o + 1)..(n - 1) : line[a] = arrow}
    IN  IF A # {} THEN SetMin(A)
        ELSE IF o >= i + 2 /\ o < n /\ line[o] = arrow THEN o
        ELSE 0

Groups(line, from, a) ==
    [m |-> TRUE,
     original |-> Strip(Slice(line, from, a - 1)),
     renamed |-> Strip(Slice(line, a + 1, Len(line)))]

\* keyword \s* (?P<original>.+?) \s* arrow \s* (?P<renamed>.+), given the
\* keyword positions I from which the rest matches: search reports the leftmost
KeywordAt(line, I, arrow) ==
    IF I = {} THEN NoMatch
    ELSE Groups(line, SetMin(I) + 1, ArrowAfter(line, SetMin(I), arrow))

KeywordRegex(line, kw, arrow) ==
    KeywordAt(line,
              {i \in 1..Len(line) : line[i] = kw /\ ArrowAfter(line, i, arrow) # 0},
              arrow)

\* (?P<original>.+?)\s*=>\s*(?P<renamed>.+), searched: a match from the first
\* character exists whenever one exists at all
ArrowRegex(line, arrow) ==
    LET A == {a \in 2..(Len(line) - 1) : line[a] = arrow}
    IN  IF A = {} THEN NoMatch ELSE Groups(line, 1, SetMin(A))

\* the list of regexes, applied to one line: the match of each, in list order
RENAMED_LINE_REGEXES(line) ==
    <<KeywordRegex(line, "Renamed:", "->"),
      KeywordRegex(line, "Original:", "New:"),
      ArrowRegex(line, "=>")>>

\* lines 124-126: the groups of the first regex that matches the line
FirstLineMatch(line) == FirstMatch(RENAMED_LINE_REGEXES(line))

-----------------------------------------------------------------------------
(* build_log_mapping.  The log directory is what glob("**/*") yields, in   *)
(* scan order: each log file has a name, may be unreadable, and holds      *)
(* lines.  A line is blank, is the text of a JSON value, is other text    *)
(* given by its characters, or is text of which only this is known: that  *)
(* json.loads rejects it.  The JSON lines of the model hold no keyword or *)
(* arrow of RENAMED_LINE_REGEXES.                                          *)

LogFile(name, readable, lines) ==
    [name |-> name, readable |-> readable, lines |-> lines]

BlankLine == [k |-> "blank"]
MalformedLine == [k |-> "malformed"]
JsonLine(v) == [k |-> "json", v |-> v]
TextOf(s) == [k |-> "text", s |-> s]

\* json.loads(line)
JsonLoads(line) ==
    IF line.k = "json" THEN Ok(line.v) ELSE Raise("JSONDecodeError")

JsonlSuffixes == {<<".", "jsonl">>, <<".", "ndjson">>}
TextSuffixes == {<<".", "log">>, <<".", "txt">>}

\* if k1 in obj: obj[k1] elif k2 in obj: obj[k2] elif k3 in obj: obj[k3]
FirstPresent(obj, k1, k2, k3) ==
    IF k1 \in DOMAIN obj THEN obj[k1]
    ELSE IF k2 \in DOMAIN obj THEN obj[k2]
    ELSE IF k3 \in DOMAIN obj THEN obj[k3]
    ELSE None

\* lines 103-111
InfoOf(obj, original) ==
    [original_path |-> original,
     metadata |-> GetOr(obj, "metadata", Dict(EmptyDict)),
     llm |-> Dict([model |-> Or(Get(obj, "model"), Get(obj, "llm_model")),
                   endpoint |-> Or(Get(obj, "endpoint"), Get(obj, "llm_endpoint")),
                   confidence |-> Get(obj, "confidence")])]

\* lines 129-133: the info of a line of a text log
UnstructuredInfo(o) ==
    [original_path |-> Str(o), metadata |-> Dict(EmptyDict), llm |-> Dict(EmptyDict)]

\* mapping[key] = info
Put(m, key, info) == Update(m, [k \in {key} |-> info])

\* lines 79-112, one line of a jsonl file: the mapping after it, and whether
\* an exception left the inner try and reached the file's except clause
Continue(m) == [m |-> m, abort |-> FALSE]
Abort(m) == [m |-> m, abort |-> TRUE]

\* line 112, given the outcome of Path(renamed).resolve()
StructPut(m, key, info) ==
    IF key.ok THEN Continue(Put(m, key.val, info)) ELSE Abort(m)

\* lines 102-112: a falsy renamed skips the line, Path() of a non-string raises
StructRenamed(m, obj, renamed, original) ==
    IF ~Truthy(renamed) THEN Continue(m)
    ELSE IF renamed.t # "str" THEN Abort(m)
    ELSE StructPut(m, Resolve(renamed.s), InfoOf(obj, original))

\* lines 86-112, given the outcome of json.loads: obj.keys() raises when the
\* value is no object
StructParsed(m, r) ==
    IF ~r.ok THEN Continue(m)
    ELSE IF r.val.t # "dict" THEN Abort(m)
    ELSE StructRenamed(m, r.val.d,
                       FirstPresent(r.val.d, "renamed_path", "renamed", "new_path"),
                       FirstPresent(r.val.d, "original_path", "original", "orig_path"))

StructLine(m, line) ==
    IF line.k = "blank" THEN Continue(m) ELSE StructParsed(m, JsonLoads(line))

\* lines 78-114, one jsonl file from line i on: an abort ends the file
RECURSIVE StructLines(_, _, _)
RECURSIVE StructLinesFrom(_, _, _)
StructLines(m, lines, i) ==
    IF i > Len(lines) THEN m
    ELSE StructLinesFrom(StructLine(m, lines[i]), lines, i + 1)
StructLinesFrom(r, lines, i) ==
    IF r.abort THEN r.m ELSE StructLines(r.m, lines, i)

\* lines 75-114
StructFile(m, f) ==
    IF Lower(Suffix(f.name)) \notin JsonlSuffixes THEN m
    ELSE IF ~f.readable THEN m
    ELSE StructLines(m, f.lines, 1)

\* lines 74-114
RECURSIVE StructPass(_, _, _)
StructPass(m, files, i) ==
    IF i > Len(files) THEN m
    ELSE StructPass(StructFile(m, files[i]), files, i + 1)

\* line 129, given the outcome of Path(renamed).resolve(), which is outside
\* any try
TextPut(m, key, info) ==
    IF key.ok THEN Ok(Put(m, key.val, info)) ELSE key

\* lines 126-134, given the groups of the first match
TextMatched(m, g) ==
    IF ~g.m THEN Ok(m)
    ELSE TextPut(m, Resolve(g.renamed), UnstructuredInfo(g.original))

\* lines 124-134, one line of a text log
TextLine(m, line) ==
    TextMatched(m, IF line.k = "text" THEN FirstLineMatch(line.s) ELSE NoMatch)

\* lines 123-134, one text log from line i on
RECURSIVE TextLines(_, _, _)
RECURSIVE TextLinesFrom(_, _, _)
TextLines(m, lines, i) ==
    IF i > Len(lines) THEN Ok(m)
    ELSE TextLinesFrom(TextLine(m, lines[i]), lines, i + 1)
TextLinesFrom(r, lines, i) ==
    IF r.ok THEN TextLines(r.val, lines, i) ELSE r

\* lines 118-134
TextFile(m, f) ==
    IF Lower(Suffix(f.name)) \notin TextSuffixes THEN Ok(m)
    ELSE IF ~f.readable THEN Ok(m)
    ELSE TextLines(m, f.lines, 1)

\* lines 117-134
RECURSIVE TextPass(_, _, _)
RECURSIVE TextPassFrom(_, _, _)
TextPass(m, files, i) ==
    IF i > Len(files) THEN Ok(m)
    ELSE TextPassFrom(TextFile(m, files[i]), files, i + 1)
TextPassFrom(r, files, i) ==
    IF r.ok THEN TextPass(r.val, files, i) ELSE r

\* logs_dir: [exists |-> whether --logs-dir was given and exists, files |-> ...]
build_log_mapping(ld) ==
    IF ~ld.exists THEN Ok(EmptyDict)
    ELSE TextPass(StructPass(EmptyDict, ld.files, 1), ld.files, 1)

-----------------------------------------------------------------------------
(* Inputs of the filename inference: a run of digits, then any text *)

MaxRest == 5

Chars == {"2", "_", "-", " ", "a", "."}

SeqsUpTo(S, n) == UNION {[1..k -> S] : k \in 0..n}

DigitRun(n) == [i \in 1..n |-> "2"]

Stems ==
    {DigitRun(d) \o r : d \in {0, YearLen - 1, YearLen, YearLen + 1},
                        r \in SeqsUpTo(Chars, MaxRest)}

Idle == [t |-> "idle"]

InitInfer ==
    /\ pc = "infer"
    /\ stem \in Stems
    /\ inferred = Idle
    /\ file_path = Idle /\ mapping = Idle /\ cfg = Idle /\ entry = Idle
    /\ fallback = FALSE /\ logs_dir = Idle /\ fs = Idle /\ output_dir = Idle
    /\ idx = 0 /\ sidecars = Idle /\ writes = << >> /\ written = 0

Infer ==
    /\ pc = "infer"
    /\ inferred' = infer_metadata_from_filename(stem)
    /\ pc' = "inferred"
    /\ UNCHANGED <<stem, file_path, mapping, cfg, entry, fallback, logs_dir,
                   fs, output_dir, idx, sidecars, writes, written>>

NextInfer == Infer

SpecInfer == InitInfer /\ [][NextInfer]_vars

-----------------------------------------------------------------------------
(* Inputs of build_sidecar_for_file *)

\* {} or {k: v} for each v
Opt(k, Vs) == {EmptyDict} \cup {[x \in {k} |-> v] : v \in Vs}

TextValues(c) == {None, Str(<< >>), Str(<<c>>)}

\* the "metadata" sub-objects a log line may carry
MdDicts ==
    {Update(Update(Update(Update(t, a), d), u), x) :
        t \in Opt("title", TextValues("T")),
        a \in Opt("author", TextValues("A")),
        d \in Opt("publication_date", {Str(<<"2", "0", "2", "0">>)}),
        u \in Opt("summary", {Str(<<"S">>)}),
        x \in Opt("domain_topics", {List(<<"x">>)}) \cup Opt("foo", {Num(1)})}

\* what obj.get("metadata", {}) may be: an object, or any other JSON value
Metadatas ==
    {Dict(d) : d \in MdDicts} \cup {None, Str(<<"oops">>), List(<<"x">>)}

OldPath == <<"/", "old", "/", "in", ".", "pdf">>

Originals == {None, Str(OldPath), Num(5)}

Attributions ==
    {[model |-> None, endpoint |-> None, confidence |-> None],
     [model |-> Str(<<"m">>), endpoint |-> None, confidence |-> Num(9)]}

\* the info of a structured (jsonl) line
StructuredInfo(o, md, llm) ==
    [original_path |-> o, metadata |-> md, llm |-> Dict(llm)]

Infos ==
    {StructuredInfo(o, md, llm) :
        o \in Originals, md \in Metadatas, llm \in Attributions}
    \cup {UnstructuredInfo(OldPath)}

InDir == <<"/", "in", "/">>

StemYTA == <<"2", "2", "2", "2", "_", "D", "_", "S">>
StemTA == <<"D", " ", "-", " ", "J", " ", "S">>
StemPlain == <<"notes">>

SidecarFiles ==
    {File(InDir \o StemYTA \o <<".", "pdf">>, "ok", <<"c1">>),
     File(InDir \o StemTA \o <<".", "pdf">>, "ok", <<"c2">>),
     File(InDir \o StemPlain \o <<".", "TXT">>, "ok", <<"c3">>),
     File(InDir \o StemPlain \o <<".", "pdf">>, "noread", <<"c4">>)}

OtherKey == <<"/", "in", "/", "other", ".", "pdf">>

Cfgs == {EmptyDict, [k \in {"MODEL"} |-> Str(<<"cfgm">>)]}

InitSidecar ==
    /\ pc = "sidecar"
    /\ file_path \in SidecarFiles
    /\ mapping \in {EmptyDict}
          \cup {[k \in {key} |-> info] :
                  key \in {Resolve(file_path.path).val, OtherKey}, info \in Infos}
    /\ cfg \in Cfgs
    /\ entry = Idle
    /\ fallback = FALSE
    /\ stem = Idle /\ inferred = Idle /\ logs_dir = Idle /\ fs = Idle
    /\ output_dir = Idle /\ idx = 0 /\ sidecars = Idle /\ writes = << >>
    /\ written = 0

\* lines 159-200
SidecarLogStep ==
    /\ pc = "sidecar"
    /\ entry' = LogStep(file_path, mapping, cfg)
    /\ pc' = IF entry'.ok THEN "logged" ELSE "raised"
    /\ UNCHANGED <<stem, inferred, file_path, mapping, cfg, fallback, logs_dir,
                   fs, output_dir, idx, sidecars, writes, written>>

\* lines 202-209
SidecarFallbackStep ==
    /\ pc = "logged"
    /\ fallback' = FallbackGate(entry.val)
    /\ entry' = Ok(FallbackStep(entry.val, file_path))
    /\ pc' = "returned"
    /\ UNCHANGED <<stem, inferred, file_path, mapping, cfg, logs_dir,
                   fs, output_dir, idx, sidecars, writes, written>>

NextSidecar == SidecarLogStep \/ SidecarFallbackStep

SpecSidecar == InitSidecar /\ [][NextSidecar]_vars

-----------------------------------------------------------------------------
(* Inputs of build_log_mapping *)

MaxLines == 2

RelPath == <<"rel", ".", "pdf">>
AbsPath == Cwd \o <<"/">> \o RelPath
Path2 == <<"/", "in", "/", "two", ".", "pdf">>

JsonlLines ==
    {BlankLine,
     MalformedLine,
     JsonLine(List(<<"x">>)),
     JsonLine(Dict([renamed_path |-> Str(AbsPath),
                    original_path |-> Str(OldPath),
                    metadata |-> Dict([title |-> Str(<<"T">>)]),
                    model |-> Str(<<"m">>)])),
     JsonLine(Dict([renamed |-> Str(RelPath),
                    original |-> Str(OldPath),
                    llm_model |-> Str(<<"m2">>)])),
     JsonLine(Dict([new_path |-> Str(Path2),
                    metadata |-> Dict([summary |-> Str(<<"S">>)])])),
     JsonLine(Dict([renamed_path |-> Num(5)])),
     JsonLine(Dict([original |-> Str(OldPath)]))}

TextLines4 ==
    {TextOf(<<"Renamed:", " ", "old", " ", "->", " ">> \o RelPath),
     TextOf(<<"old", " ", "=>", " ">> \o Path2),
     TextOf(<<"old", " ", "=>", " ", "x", "NUL">>),
     TextOf(<<"junk">>)}

LogFiles ==
    {LogFile(<<"a", ".", "jsonl">>, TRUE, l) : l \in SeqsUpTo(JsonlLines, MaxLines)}
    \cup {LogFile(<<"b", ".", "log">>, TRUE, l) : l \in SeqsUpTo(TextLines4, MaxLines)}
    \cup {LogFile(<<"a", ".", "jsonl">>, FALSE, << >>),
          LogFile(<<"b", ".", "log">>, FALSE, << >>)}

NoLogsDir == [exists |-> FALSE, files |-> << >>]
LogsDir(files) == [exists |-> TRUE, files |-> files]

InitLog ==
    /\ pc = "build_log_mapping"
    /\ logs_dir \in {NoLogsDir} \cup {LogsDir(fl) : fl \in LogFiles \X LogFiles}
    /\ mapping = Idle
    /\ entry = Idle
    /\ stem = Idle /\ inferred = Idle /\ file_path = Idle /\ cfg = Idle
    /\ fallback = FALSE /\ fs = Idle /\ output_dir = Idle /\ idx = 0
    /\ sidecars = Idle /\ writes = << >> /\ written = 0

\* lines 65-135: the call returns the mapping
BuildLogMappingReturns ==
    /\ pc = "build_log_mapping"
    /\ \E r \in {build_log_mapping(logs_dir)} : r.ok /\ mapping' = r.val
    /\ pc' = "mapped"
    /\ UNCHANGED <<stem, inferred, file_path, cfg, entry, fallback, logs_dir,
                   fs, output_dir, idx, sidecars, writes, written>>

\* lines 65-135: the call raises
BuildLogMappingRaises ==
    /\ pc = "build_log_mapping"
    /\ \E r \in {build_log_mapping(logs_dir)} : ~r.ok /\ entry' = r
    /\ pc' = "log_raised"
    /\ UNCHANGED <<stem, inferred, file_path, mapping, cfg, fallback, logs_dir,
                   fs, output_dir, idx, sidecars, writes, written>>

NextLog == BuildLogMappingReturns \/ BuildLogMappingRaises

SpecLog == InitLog /\ [][NextLog]_vars

-----------------------------------------------------------------------------
(* write_sidecar and main *)

SUPPORTED_EXTS ==
    {<<".", "pdf">>, <<".", "epub">>, <<".", "mobi">>, <<".", "chm">>, <<".", "txt">>}

\* line 250: p.suffix.lower() in include_exts, with the default --exts
Included(f) == Lower(Suffix(f.path)) \in SUPPORTED_EXTS

\* line 250: the files main processes, in rglob order
Files(listing) == SelectSeq(listing, Included)

\* lines 213-217: the target path; the sink is assumed writable
Target(f, out) ==
    IF Truthy(out) THEN out.s \o <<"/">> \o Name(f.path) \o <<".", "json">>
    ELSE f.path \o <<".", "json">>

\* lines 212-221: the sink after the write
write_sidecar(sink, f, sidecar, out) == Put(sink, Target(f, out), sidecar)

MaxFiles == 3

SubDir == InDir \o <<"sub", "/">>

InputPaths ==
    {d \o n : d \in {InDir, SubDir},
              n \in {StemYTA \o <<".", "pdf">>, StemPlain \o <<".", "txt">>}}
    \cup {InDir \o <<"x", ".", "doc">>}

InputFiles == {File(p, d, <<"c">>) : p \in InputPaths, d \in {"ok", "noread"}}

\* what rglob may yield: no path twice
Listings ==
    {l \in SeqsUpTo(InputFiles, MaxFiles) :
        \A i, j \in 1..Len(l) : i # j => l[i].path # l[j].path}

MainLogs ==
    {NoLogsDir,
     LogsDir(<<LogFile(<<"a", ".", "jsonl">>, TRUE,
               <<JsonLine(Dict([renamed_path |-> Str(InDir \o StemYTA \o <<".", "pdf">>),
                                metadata |-> Dict([title |-> Str(<<"T">>)])]))>>)>>),
     LogsDir(<<LogFile(<<"a", ".", "jsonl">>, TRUE,
               <<JsonLine(Dict([renamed_path |-> Str(InDir \o StemPlain \o <<".", "txt">>),
                                metadata |-> Str(<<"oops">>)]))>>)>>),
     LogsDir(<<LogFile(<<"b", ".", "log">>, TRUE,
               <<TextOf(<<"old", " ", "=>", " ", "x", "NUL">>)>>)>>)}

OutDir == <<"/", "out">>

Init ==
    /\ pc = "main"
    /\ fs \in {[exists |-> FALSE, files |-> << >>]}
          \cup {[exists |-> TRUE, files |-> l] : l \in Listings}
    /\ output_dir \in {None, Str(OutDir)}
    /\ logs_dir \in MainLogs
    /\ cfg = [k \in {"MODEL"} |-> Str(<<"cfgm">>)]
    /\ mapping = EmptyDict
    /\ entry = Idle
    /\ idx = 0
    /\ sidecars = EmptyDict
    /\ writes = << >>
    /\ written = 0
    /\ stem = Idle /\ inferred = Idle /\ file_path = Idle /\ fallback = FALSE

\* the file of the current iteration of line 256
CurrentFile == Files(fs.files)[idx]

\* lines 236-238: the input directory does not exist
MainNoInputDir ==
    /\ pc = "main"
    /\ ~fs.exists
    /\ pc' = "exit1"
    /\ UNCHANGED <<stem, inferred, file_path, mapping, cfg, entry, fallback,
                   logs_dir, fs, output_dir, idx, sidecars, writes, written>>

\* line 248: build_log_mapping raises, and nothing in main catches it
MainLogMappingRaises ==
    /\ pc = "main"
    /\ fs.exists
    /\ \E r \in {build_log_mapping(logs_dir)} : ~r.ok /\ entry' = r
    /\ pc' = "crashed"
    /\ UNCHANGED <<stem, inferred, file_path, mapping, cfg, fallback,
                   logs_dir, fs, output_dir, idx, sidecars, writes, written>>

\* lines 248-255: the mapping is built and the files are enumerated
MainPrepare ==
    /\ pc = "main"
    /\ fs.exists
    /\ \E r \in {build_log_mapping(logs_dir)} : r.ok /\ mapping' = r.val
    /\ IF Files(fs.files) = << >>
       THEN pc' = "exit0" /\ idx' = idx
       ELSE pc' = "loop" /\ idx' = 1
    /\ UNCHANGED <<stem, inferred, file_path, cfg, entry, fallback,
                   logs_dir, fs, output_dir, sidecars, writes, written>>

\* lines 256-260, one iteration: the record is built and written
MainWriteSidecar ==
    /\ pc = "loop"
    /\ idx <= Len(Files(fs.files))
    /\ \E r \in {build_sidecar_for_file(CurrentFile, mapping, cfg)} :
           /\ r.ok
           /\ sidecars' = write_sidecar(sidecars, CurrentFile, r.val, output_dir)
    /\ writes' = Append(writes, [file |-> idx,
                                 target |-> Target(CurrentFile, output_dir)])
    /\ written' = written + 1
    /\ idx' = idx + 1
    /\ file_path' = CurrentFile
    /\ UNCHANGED <<pc, stem, inferred, mapping, cfg, entry, fallback,
                   logs_dir, fs, output_dir>>

\* line 257: build_sidecar_for_file raises, and nothing in main catches it
MainSidecarRaises ==
    /\ pc = "loop"
    /\ idx <= Len(Files(fs.files))
    /\ \E r \in {build_sidecar_for_file(CurrentFile, mapping, cfg)} :
           ~r.ok /\ entry' = r
    /\ file_path' = CurrentFile
    /\ pc' = "crashed"
    /\ UNCHANGED <<stem, inferred, mapping, cfg, fallback, logs_dir, fs,
                   output_dir, idx, sidecars, writes, written>>

\* line 262: the loop is over
MainFinish ==
    /\ pc = "loop"
    /\ idx > Len(Files(fs.files))
    /\ pc' = "done"
    /\ UNCHANGED <<stem, inferred, file_path, mapping, cfg, entry, fallback,
                   logs_dir, fs, output_dir, idx, sidecars, writes, written>>

Next ==
    \/ MainNoInputDir
    \/ MainLogMappingRaises
    \/ MainPrepare
    \/ MainWriteSidecar
    \/ MainSidecarRaises
    \/ MainFinish

Spec == Init /\ [][Next]_vars

-----------------------------------------------------------------------------
(* Properties of build_sidecar_for_file, checked under SpecSidecar *)

BiblioKeySet == {BiblioKeys[i] : i \in DOMAIN BiblioKeys}

\* the key the file is looked up by, and what the log step sees for it
OwnKey == Resolve(file_path.path).val
HasLogEntry == OwnKey \in DOMAIN mapping
LogMetadata == mapping[OwnKey]["metadata"]
HasStructuredMetadata == HasLogEntry /\ LogMetadata.t = "dict"

\* the structured metadata holds k with a value other than null
Provides(k) == k \in DOMAIN LogMetadata.d /\ LogMetadata.d[k] # None

\* ... with a value that is neither null nor empty
ProvidesNonEmpty(k) == Provides(k) /\ Truthy(LogMetadata.d[k])

\* C1 as stated: whenever the log's structured metadata provides a title and
\* no author, the filename fallback does not run, and the record returned has
\* the log's title and a null author.
C1_TitleWithoutAuthor ==
    (pc = "returned" /\ HasStructuredMetadata
        /\ Provides("title") /\ ~Provides("author"))
    => /\ ~fallback
       /\ entry.val["title"] = LogMetadata.d["title"]
       /\ entry.val["author"] = None

\* C1 amended: whenever the log's structured metadata provides a non-empty
\* title and no author, the filename fallback does not run, and the record
\* returned has the log's title and a null author.
C1_NonEmptyTitleWithoutAuthor ==
    (pc = "returned" /\ HasStructuredMetadata
        /\ ProvidesNonEmpty("title") /\ ~Provides("author"))
    => /\ ~fallback
       /\ entry.val["title"] = LogMetadata.d["title"]
       /\ entry.val["author"] = None

\* a record was returned for a file whose stem matches pattern 1, from a log
\* entry with a non-empty title and no author
C1_Witness ==
    /\ pc = "returned" /\ HasStructuredMetadata
    /\ ProvidesNonEmpty("title") /\ ~Provides("author")
    /\ PathStem(file_path.path) = StemYTA
    /\ entry.val["author"] = None

\* C2: the fallback is fill-only: every bibliographic field the log's
\* structured metadata populated keeps the log's value in the record returned.
C2_FallbackFillOnly ==
    (pc = "returned" /\ HasStructuredMetadata)
    => \A k \in BiblioKeySet :
          ProvidesNonEmpty(k) => entry.val[k] = LogMetadata.d[k]

\* C3: a record returned with a bibliographic field that was copied from the
\* log's non-empty structured metadata has metadata_source "llm".
C3_LogDataMeansLlm ==
    (pc = "returned" /\ HasStructuredMetadata
        /\ \E k \in BiblioKeySet :
              Provides(k) /\ entry.val[k] = LogMetadata.d[k])
    => entry.val["metadata_source"] = Str(<<"llm">>)

SchemaKeys ==
    {"source_path", "canonical_filename", "original_filename", "file_format",
     "mime_type", "size_bytes", "sha256", "title", "author", "publication_date",
     "summary", "domain_topics", "llm", "metadata_source", "created_at"}

AttributionKeys == {"model", "endpoint", "confidence"}

\* C7: every record returned has exactly the keys of the schema and exactly
\* the three attribution keys, whatever the log entry, the filename and the
\* configuration.
C7_StableSchema ==
    pc = "returned"
    => /\ DOMAIN entry.val = SchemaKeys
       /\ entry.val["llm"].t = "dict"
       /\ DOMAIN entry.val["llm"].d = AttributionKeys

\* a record was returned after both steps wrote to it: the log entry, whose
\* metadata also holds a key outside the schema, and the filename fallback
C7_Witness ==
    /\ pc = "returned" /\ HasStructuredMetadata
    /\ "foo" \in DOMAIN LogMetadata.d
    /\ Provides("summary")
    /\ fallback
    /\ entry.val["publication_date"] = Str(DigitRun(YearLen))

-----------------------------------------------------------------------------
(* Properties of infer_metadata_from_filename, checked under SpecInfer *)

Chars1(q) == {q[i] : i \in DOMAIN q}

\* pattern 1 reads the stem as YEAR SEP TITLE SEP AUTHOR and wins over
\* pattern 2
Pattern1Shape(g) ==
    /\ g.year = Slice(stem, 1, YearLen)
    /\ Chars1(g.year) \subseteq Digits
    /\ g.title # << >> /\ g.author # << >>
    /\ \E a, b \in Seps : stem = g.year \o <<a>> \o g.title \o <<b>> \o g.author
    /\ inferred["publication_date"] = Str(g.year)
    /\ inferred["metadata_source"] = Str(<<"filename">>)

NoPatternMatches == ~Pattern1(stem).m /\ ~Pattern2(stem).m

OnlyUnknown == inferred = [k \in {"metadata_source"} |-> Str(<<"unknown">>)]

\* C8 as stated: whenever pattern 1 matches, YEAR is the 4 leading digits and
\* neither the captured TITLE nor the captured AUTHOR holds a separator
\* character; a stem matching no pattern yields no fields and source "unknown".
C8_NoSeparatorInSegments ==
    pc = "inferred"
    => /\ Pattern1(stem).m
            => /\ Pattern1Shape(Pattern1(stem))
               /\ Chars1(Pattern1(stem).title) \cap Seps = {}
               /\ Chars1(Pattern1(stem).author) \cap Seps = {}
       /\ NoPatternMatches => OnlyUnknown

\* C8 amended: whenever pattern 1 matches, YEAR is the 4 leading digits, the
\* captured TITLE holds no underscore and no hyphen (it may hold spaces) and
\* the captured AUTHOR holds no dot (it may hold any separator); a stem
\* matching no pattern yields no fields and source "unknown".
C8_Pattern1Segments ==
    pc = "inferred"
    => /\ Pattern1(stem).m
            => /\ Pattern1Shape(Pattern1(stem))
               /\ Chars1(Pattern1(stem).title) \cap {"_", "-"} = {}
               /\ "." \notin Chars1(Pattern1(stem).author)
       /\ NoPatternMatches => OnlyUnknown

\* pattern 1 matched a stem whose title segment holds a letter and a space
C8_Witness ==
    /\ pc = "inferred"
    /\ Pattern1(stem).m
    /\ {" ", "a"} \subseteq Chars1(Pattern1(stem).title)
    /\ "publication_date" \in DOMAIN inferred

-----------------------------------------------------------------------------
(* Properties of build_log_mapping, checked under SpecLog *)

IsJsonl(f) == Lower(Suffix(f.name)) \in JsonlSuffixes /\ f.readable
IsText(f) == Lower(Suffix(f.name)) \in TextSuffixes /\ f.readable

RenamedOf(line) == FirstPresent(line.v.d, "renamed_path", "renamed", "new_path")
OriginalOf(line) == FirstPresent(line.v.d, "original_path", "original", "orig_path")

\* a line of a jsonl file that is a JSON object with a renamed path
UsableJson(line) ==
    /\ line.k = "json" /\ line.v.t = "dict"
    /\ RenamedOf(line).t = "str" /\ RenamedOf(line).s # << >>
    /\ Resolve(RenamedOf(line).s).ok

\* a line of a text log that one of the regexes matches
UsableText(line) ==
    /\ line.k = "text" /\ FirstLineMatch(line.s).m
    /\ Resolve(FirstLineMatch(line.s).renamed).ok

\* C5: every valid object line of a readable .jsonl file that carries a
\* renamed path contributes its entry, whatever the other lines of the file.
C5_LinesIndependent ==
    pc = "mapped"
    => \A n \in DOMAIN logs_dir.files :
          IsJsonl(logs_dir.files[n])
          => \A i \in DOMAIN logs_dir.files[n].lines :
                UsableJson(logs_dir.files[n].lines[i])
                => Resolve(RenamedOf(logs_dir.files[n].lines[i]).s).val
                      \in DOMAIN mapping

\* the matching lines, by pass, file and line; their order of writing
MatchingLines ==
    {<<1, n, i>> : n \in DOMAIN logs_dir.files, i \in 1..MaxLines} \cup
    {<<2, n, i>> : n \in DOMAIN logs_dir.files, i \in 1..MaxLines}

IsMatching(w) ==
    LET f == logs_dir.files[w[2]]
    IN  /\ w[3] \in DOMAIN f.lines
        /\ IF w[1] = 1 THEN IsJsonl(f) /\ UsableJson(f.lines[w[3]])
           ELSE IsText(f) /\ UsableText(f.lines[w[3]])

LineAt(w) == logs_dir.files[w[2]].lines[w[3]]

KeyAt(w) ==
    IF w[1] = 1 THEN Resolve(RenamedOf(LineAt(w)).s).val
    ELSE Resolve(FirstLineMatch(LineAt(w).s).renamed).val

InfoAt(w) ==
    IF w[1] = 1 THEN InfoOf(LineAt(w).v.d, OriginalOf(LineAt(w)))
    ELSE UnstructuredInfo(FirstLineMatch(LineAt(w).s).original)

Before(v, w) ==
    \/ v[1] < w[1]
    \/ v[1] = w[1] /\ v[2] < w[2]
    \/ v[1] = w[1] /\ v[2] = w[2] /\ v[3] < w[3]

\* C6: the mapping holds, for every canonical path, the entry of the last
\* matching line in the order "structured pass, then unstructured pass", each
\* in scan order and then in line order.
C6_LastWriteWins ==
    pc = "mapped"
    => /\ DOMAIN mapping = {KeyAt(w) : w \in {v \in MatchingLines : IsMatching(v)}}
       /\ \A w \in MatchingLines :
             (IsMatching(w)
                /\ \A v \in MatchingLines :
                      (IsMatching(v) /\ KeyAt(v) = KeyAt(w)) => ~Before(w, v))
             => mapping[KeyAt(w)] = InfoAt(w)

-----------------------------------------------------------------------------
(* Properties of main, checked under Spec *)

\* C4: bad log data never ends the run: main ends on an unhandled error only
\* at an input file whose stat or digest failed.
C4_OnlyIdentityEndsRun ==
    pc = "crashed"
    => /\ idx >= 1
       /\ CurrentFile.disk # "ok"

WrittenFiles == {writes[i].file : i \in DOMAIN writes}

\* the last write to target t
LastWriteTo(t) ==
    SetMax({i \in DOMAIN writes : writes[i].target = t})

FileOfWrite(i) == Files(fs.files)[writes[i].file]

\* C9: a sidecar is written only for a file whose digest was read, and holds
\* that digest; when the digest of a file cannot be read the error leaves
\* build_sidecar_for_file and ends the run with no sidecar for that file or
\* for a later one, and every sidecar written for an earlier file is still
\* the record that was built for it.
C9_NoSidecarWithoutDigest ==
    /\ \A i \in DOMAIN writes :
          /\ FileOfWrite(i).disk = "ok"
          /\ writes[i].target \in DOMAIN sidecars
    /\ \A t \in DOMAIN sidecars :
          /\ \E i \in DOMAIN writes : writes[i].target = t
          /\ sidecars[t]["sha256"] = sha256_file(FileOfWrite(LastWriteTo(t))).val
          /\ sidecars[t] =
                build_sidecar_for_file(FileOfWrite(LastWriteTo(t)), mapping, cfg).val
    /\ (pc = "crashed" /\ idx >= 1 /\ CurrentFile.disk # "ok")
          => /\ entry = Raise("PermissionError")
             /\ \A n \in WrittenFiles : n < idx

\* the run ended at an unreadable file after a sidecar was written for an
\* earlier file and before a later file was reached
C9_Witness ==
    /\ pc = "crashed"
    /\ idx >= 1
    /\ CurrentFile.disk = "noread"
    /\ entry = Raise("PermissionError")
    /\ Len(writes) >= 1
    /\ idx < Len(Files(fs.files))

\* C10: after a completed run every processed file has its own sidecar
\* target, so "written" is the number of sidecar files produced.
C10_OneSidecarPerFile ==
    pc = "done"
    => /\ \A i, j \in DOMAIN writes :
             i # j => writes[i].target # writes[j].target
       /\ written = Cardinality(DOMAIN sidecars)

====
